---- MODULE Spec2Model ----
(***************************************************************************)
(* Hailey Bingo (src/src/App.tsx): the App component's state (board,       *)
(* modal, search, theme), the two localStorage slots it reads at startup   *)
(* and writes from its effects, and its event handlers.                    *)
(*                                                                         *)
(* Values that JSON.parse can return are tagged records: "null", "number", *)
(* "string" (with its length), "object" (a plain object without a question *)
(* and with a boolean checked), "cell" (an object with a question and a    *)
(* boolean checked) and "array".                                           *)
(***************************************************************************)
EXTENDS Integers, Sequences, FiniteSets, TLC

VARIABLES
    lsBoard,         \* localStorage slot "bingo-board-state"
    lsTheme,         \* localStorage slot "bingo-theme"
    pc,              \* "unloaded", "rendered" (the first render is committed,
                     \* its effects are pending), "ready" or "crashed" (a
                     \* render threw)
    board,           \* useState board
    modal,           \* useState modal
    search,          \* useState search
    theme,           \* useState theme
    bingoCompleted,  \* const bingoCompleted of the last render
    loaded,          \* history: what the last load read from the two slots and
                     \* from the host's prefers-color-scheme query, kept until
                     \* the first event after that load; and the theme that
                     \* load set with the number of theme toggles made since,
                     \* kept while no other event is handled
    snap,            \* history: the board when the detail view was last opened
    rep              \* history: toggles made since the detail view was last opened

vars == <<lsBoard, lsTheme, pc, board, modal, search, theme,
          bingoCompleted, loaded, snap, rep>>

(***************************************************************************)
(* Bounds                                                                  *)
(***************************************************************************)
\* The user clicks the cells of the 5x5 area whose index row*5+col is at
\* most MaxClickIdx (and any cell outside the 5x5 area).
MaxClickIdx == 4
\* The user presses keys on the cells whose index row*5+col is at most
\* MaxKeyIdx (a key press that opens the detail view is handled as a click).
MaxKeyIdx == 1
\* At most MaxRep check actions per opening of the detail view.
MaxRep == 2
\* SpecSearch: length of the typed query.
MaxQueryLen == 3
\* SpecBingo: cells of a base pattern whose checked flag is flipped.
MaxFlip == 3
\* Theme toggles counted in the history after a load.
MaxThemeRun == 2

(***************************************************************************)
(* The question catalog (questions.json): 25 distinct texts, in order.     *)
(***************************************************************************)
Alphabet == <<"a", "b", "A", "B", " ">>

CatalogTexts ==
    <<"aa", "ab", "aA", "aB", "a ",
      "ba", "bb", "bA", "bB", "b ",
      "Aa", "Ab", "AA", "AB", "A ",
      " a", " b", " A", " B", "  ",
      "Ba", "Bb", "BA", "BB", "B ">>

questionsData == [i \in 1..25 |-> [id |-> i, question |-> CatalogTexts[i]]]

\* A text that is not in the catalog.
OtherText == "z"

\* The characters of a text.
CharsOf(text) ==
    IF text = "" THEN <<>>
    ELSE IF text = OtherText THEN <<"z">>
    ELSE LET i == CHOOSE k \in 1..25 : CatalogTexts[k] = text
             first == IF i <= 5 THEN "a" ELSE IF i <= 10 THEN "b" ELSE IF i <= 15 THEN "A"
                      ELSE IF i <= 20 THEN " " ELSE "B"
         IN <<first, Alphabet[((i - 1) % 5) + 1]>>

(***************************************************************************)
(* JSON values                                                             *)
(***************************************************************************)
JNull == [t |-> "null"]
JNumber == [t |-> "number"]
\* A string of n characters.
StringOf(n) == [t |-> "string", len |-> n]
\* "hello"
JString == StringOf(5)
\* A plain object without a question: { checked: ch }.
Obj(ch) == [t |-> "object", checked |-> ch]
\* { checked: true }
JObject == Obj(TRUE)
Cell(q, ch) == [t |-> "cell", question |-> q, checked |-> ch]
Arr(items) == [t |-> "array", items |-> items]

IsArray(v) == v.t = "array"

\* Concatenation of a sequence of sequences.
RECURSIVE Concat(_)
Concat(ss) == IF ss = <<>> THEN <<>> ELSE Head(ss) \o Concat(Tail(ss))

\* Array.prototype.flat() (depth 1) of an array value: the items of its array
\* items, and its other items as they are.
Flat(v) ==
    Concat([i \in 1..Len(v.items) |->
               IF IsArray(v.items[i]) THEN v.items[i].items ELSE <<v.items[i]>>])

\* cell.question: a string, or undefined when the value has no such property.
Undefined == [undef |-> TRUE]
Defined(s) == [undef |-> FALSE, str |-> s]
QuestionOf(item) == IF item.t = "cell" THEN Defined(item.question) ELSE Undefined
\* The characters of a question that is a string.
QuestionChars(item) == CharsOf(QuestionOf(item).str)

(***************************************************************************)
(* localStorage items                                                      *)
(***************************************************************************)
\* getItem returns null for a key that is not stored.
NoItem == [kind |-> "null"]
\* A stored string of the theme slot.
Str(s) == [kind |-> "string", s |-> s]
\* A stored string of the board slot: the empty string, a text that is not
\* JSON, or the JSON text of a value.
EmptyText == [kind |-> "string", form |-> "empty", val |-> JNull]
GarbageText == [kind |-> "string", form |-> "garbage", val |-> JNull]
JSONstringify(v) == [kind |-> "string", form |-> "json", val |-> v]

\* if (saved): null and the empty string are falsy.
Truthy(item) == item.kind = "string" /\ item.form # "empty"
\* JSON.parse: throws a SyntaxError on a text that is not JSON.
JSONparseThrows(text) == text.form # "json"
JSONparse(text) == text.val

(***************************************************************************)
(* getInitialTheme                                                         *)
(***************************************************************************)
getInitialThemeHostFirst(saved, scheme) ==
    IF scheme = "dark" THEN "dark"
    ELSE IF saved.kind = "string" /\ saved.s \in {"dark", "light"} THEN saved.s
    ELSE "light"

getInitialTheme(saved, scheme) ==
    IF saved.kind = "string" /\ saved.s \in {"dark", "light"} THEN saved.s
    ELSE IF scheme # "unsupported" /\ scheme = "dark" THEN "dark"
    ELSE "light"

(***************************************************************************)
(* getInitialBoard                                                         *)
(***************************************************************************)
\* Array.from({length: 5}, ...): the fresh grid built from the catalog.
FreshBoard ==
    Arr([row \in 1..5 |->
            Arr([col \in 1..5 |->
                    Cell(questionsData[(row - 1) * 5 + (col - 1) + 1].question, FALSE)])])

flatQuestions == [i \in 1..Len(questionsData) |-> questionsData[i].question]

QuestionsMatchAsSets(flatSaved) ==
    {flatSaved[i] : i \in 1..Len(flatSaved)}
        = {Defined(flatQuestions[i]) : i \in 1..Len(flatQuestions)}

\* flatQuestions.every((q, i) => q === flatSaved[i])
QuestionsMatch(flatSaved) ==
    \A i \in 1..Len(flatQuestions) :
        /\ i <= Len(flatSaved)
        /\ flatSaved[i] = Defined(flatQuestions[i])

\* The try block: TRUE when it throws (JSON.parse on a text that is not JSON,
\* .flat on a value that is not an array, .question on null).
TryThrows(saved) ==
    \/ JSONparseThrows(saved)
    \/ ~IsArray(JSONparse(saved))
    \/ LET flat == Flat(JSONparse(saved))
       IN \E i \in 1..Len(flat) : flat[i].t = "null"

getInitialBoardFresh(saved) == FreshBoard

getInitialBoard(saved) ==
    IF ~Truthy(saved) THEN FreshBoard
    ELSE IF TryThrows(saved) THEN FreshBoard
    ELSE LET parsed == JSONparse(saved)
             flat == Flat(parsed)
             flatSaved == [i \in 1..Len(flat) |-> QuestionOf(flat[i])]
         IN IF QuestionsMatch(flatSaved) THEN parsed ELSE FreshBoard

(***************************************************************************)
(* isBingo                                                                 *)
(*                                                                         *)
(* An evaluation ends in "true", "false" or "TypeError" (a property read   *)
(* or a call on undefined or null).                                        *)
(***************************************************************************)
\* cell.checked as a condition: a TypeError on null, the flag of an object,
\* undefined (falsy) on a number, a string or an array.
Checked(item) ==
    IF item.t = "null" THEN "TypeError"
    ELSE IF item.t \in {"cell", "object"} THEN (IF item.checked THEN "true" ELSE "false")
    ELSE "false"

\* row[j].checked for a 0-based j: row[j] is an item of an array, a
\* one-character string of a string, and undefined (a TypeError on .checked)
\* when row has no index j; reading [j] of null is a TypeError too.
CheckedAt(row, j) ==
    IF IsArray(row) /\ j >= 0 /\ j < Len(row.items)
    THEN Checked(row.items[j + 1])
    ELSE IF row.t = "string" /\ j >= 0 /\ j < row.len
    THEN "false"
    ELSE "TypeError"

\* Array.prototype.every over per-element outcomes: the first element whose
\* outcome is not "true" decides.
Every(outs) ==
    IF \A i \in 1..Len(outs) : outs[i] = "true" THEN "true"
    ELSE outs[CHOOSE i \in 1..Len(outs) :
                 /\ outs[i] # "true"
                 /\ \A k \in 1..(i - 1) : outs[k] = "true"]

\* A sequence of `if (...) return true;` statements: the first outcome that
\* is not "false" decides; `return false` after the last.
FirstHit(outs) ==
    IF \A i \in 1..Len(outs) : outs[i] = "false" THEN "false"
    ELSE outs[CHOOSE i \in 1..Len(outs) :
                 /\ outs[i] # "false"
                 /\ \A k \in 1..(i - 1) : outs[k] = "false"]

RowCheckSkipFirst(b, i) ==
    IF i >= 1 /\ i < Len(b.items) /\ IsArray(b.items[i + 1])
    THEN Every([k \in 1..Len(b.items[i + 1].items) |-> Checked(b.items[i + 1].items[k])])
    ELSE IF i = 0 THEN "false" ELSE "TypeError"

\* board[i].every((cell) => cell.checked) for a 0-based i
RowCheck(b, i) ==
    IF i < Len(b.items) /\ IsArray(b.items[i + 1])
    THEN Every([k \in 1..Len(b.items[i + 1].items) |-> Checked(b.items[i + 1].items[k])])
    ELSE "TypeError"

\* board.every((row) => row[j].checked)
ColCheck(b, j) == Every([r \in 1..Len(b.items) |-> CheckedAt(b.items[r], j)])

\* board.every((row, idx) => row[idx].checked)
DiagCheck(b) == Every([r \in 1..Len(b.items) |-> CheckedAt(b.items[r], r - 1)])

AntiDiagCheckSameIdx(b) ==
    Every([r \in 1..Len(b.items) |-> CheckedAt(b.items[r], r - 1)])

\* board.every((row, idx) => row[4 - idx].checked)
AntiDiagCheck(b) == Every([r \in 1..Len(b.items) |-> CheckedAt(b.items[r], 4 - (r - 1))])

isBingoRun(b) ==
    FirstHit([i \in 1..5 |-> RowCheck(b, i - 1)]
             \o [j \in 1..5 |-> ColCheck(b, j - 1)]
             \o <<DiagCheck(b), AntiDiagCheck(b)>>)

\* The boolean isBingo returns (when it returns).
isBingo(b) == isBingoRun(b) = "true"

(***************************************************************************)
(* The cells of the board                                                  *)
(***************************************************************************)
\* The (row, col) pairs, 0-based, of the cells that board.map / row.map visit.
CellsOf(b) ==
    UNION {{<<r - 1, c - 1>> : c \in 1..Len(b.items[r].items)} :
              r \in {k \in 1..Len(b.items) : IsArray(b.items[k])}}

CellAt(b, row, col) == b.items[row + 1].items[col + 1]

(***************************************************************************)
(* The updater of onModalCheckHandler                                      *)
(***************************************************************************)
ToggleCellSet(cell) == [cell EXCEPT !.checked = TRUE]

\* { ...cell, checked: !cell.checked }: an object keeps its other properties;
\* a number, a string or an array has no checked and gives an object without
\* a question whose checked is true.
ToggleCell(cell) ==
    IF cell.t \in {"cell", "object"} THEN [cell EXCEPT !.checked = ~cell.checked]
    ELSE Obj(TRUE)

\* The updater throws a TypeError: r.map on a selected row that is not an
\* array, cell.checked on a selected cell that is null.
ToggleThrows(prev, row, col) ==
    /\ row >= 0 /\ row < Len(prev.items)
    /\ \/ ~IsArray(prev.items[row + 1])
       \/ /\ col >= 0 /\ col < Len(prev.items[row + 1].items)
          /\ prev.items[row + 1].items[col + 1].t = "null"

ToggleRowOnly(prev, row, col) ==
    Arr([rIdx \in 1..Len(prev.items) |->
            IF rIdx - 1 # row THEN prev.items[rIdx]
            ELSE Arr([cIdx \in 1..Len(prev.items[rIdx].items) |->
                         ToggleCell(prev.items[rIdx].items[cIdx])])])

\* prev.map((r, rIdx) => rIdx !== row ? r : r.map((cell, cIdx) => cIdx !== col ? cell : ...))
Toggle(prev, row, col) ==
    Arr([rIdx \in 1..Len(prev.items) |->
            IF rIdx - 1 # row THEN prev.items[rIdx]
            ELSE Arr([cIdx \in 1..Len(prev.items[rIdx].items) |->
                         IF cIdx - 1 # col THEN prev.items[rIdx].items[cIdx]
                         ELSE ToggleCell(prev.items[rIdx].items[cIdx])])])

(***************************************************************************)
(* The search filter of the render                                         *)
(***************************************************************************)
\* String.prototype.toLowerCase, per character.
LowerChar(c) == IF c = "A" THEN "a" ELSE IF c = "B" THEN "b" ELSE c
toLowerCase(s) == [i \in 1..Len(s) |-> LowerChar(s[i])]

\* String.prototype.trim: drops leading and trailing white space (of the
\* characters typed here, the space and the tab).
WhiteSpace == {" ", "\t"}
RECURSIVE TrimStart(_)
TrimStart(s) == IF s # <<>> /\ Head(s) \in WhiteSpace THEN TrimStart(Tail(s)) ELSE s
RECURSIVE TrimEnd(_)
TrimEnd(s) ==
    IF s # <<>> /\ s[Len(s)] \in WhiteSpace THEN TrimEnd(SubSeq(s, 1, Len(s) - 1)) ELSE s

trimStartOnly(s) == TrimStart(s)

trim(s) == TrimEnd(TrimStart(s))

\* String.prototype.includes
includes(s, sub) ==
    \E k \in 0..(Len(s) - Len(sub)) : SubSeq(s, k + 1, k + Len(sub)) = sub

\* The cell is rendered (the callback does not return null, and does not
\* throw: see FilterThrows).
Visible(cell, query) ==
    LET searchText == toLowerCase(trim(query))
    IN ~(/\ searchText # <<>>
         /\ \/ QuestionOf(cell) = Undefined
            \/ ~includes(toLowerCase(QuestionChars(cell)), searchText))

\* The callback of row.map throws a TypeError: cell.question.toLowerCase()
\* on a cell without a question when the trimmed query is not empty,
\* cell.checked on null.
FilterThrows(cell, query) ==
    \/ cell.t = "null"
    \/ toLowerCase(trim(query)) # <<>> /\ QuestionOf(cell) = Undefined

(***************************************************************************)
(* Rendering                                                               *)
(***************************************************************************)
\* The render throws when isBingo throws, when board.map reaches a row that
\* has no .map (an item of the board that is not an array), or when the
\* callback of row.map throws on a cell.
RenderThrows(b, query) ==
    \/ isBingoRun(b) = "TypeError"
    \/ \E r \in 1..Len(b.items) : ~IsArray(b.items[r])
    \/ \E rc \in CellsOf(b) : FilterThrows(CellAt(b, rc[1], rc[2]), query)

(***************************************************************************)
(* Contents of the board slot at the first load                            *)
(***************************************************************************)
\* 25 cells with the questions qs, checked at the 0-based indexes in chk.
CellsWith(qs, chk) == [i \in 1..25 |-> Cell(qs[i], (i - 1) \in chk)]

\* The cells cut into rows of the given lengths.
RECURSIVE Rows(_, _)
Rows(cells, lens) ==
    IF lens = <<>> THEN <<>>
    ELSE <<Arr(SubSeq(cells, 1, Head(lens)))>>
         \o Rows(SubSeq(cells, Head(lens) + 1, Len(cells)), Tail(lens))

Grid5(qs, chk) == Arr(Rows(CellsWith(qs, chk), <<5, 5, 5, 5, 5>>))

\* Patterns of checked cells (0-based index row*5+col).
PNone == {}
PColumn0 == {0, 5, 10, 15, 20}
PColumn2 == {2, 7, 12, 17, 22}
PDiagButFirst == {6, 12, 18, 24}
PTwentyNoLine == (0..24) \ {0, 8, 11, 19, 22}
Patterns == {PNone, PColumn2, PDiagButFirst, PTwentyNoLine}

\* The catalog with its first two questions exchanged / its last one replaced.
SwappedQuestions ==
    [i \in 1..25 |-> IF i = 1 THEN flatQuestions[2]
                     ELSE IF i = 2 THEN flatQuestions[1] ELSE flatQuestions[i]]
ChangedQuestions == [flatQuestions EXCEPT ![25] = OtherText]

ExtraCell == Cell(OtherText, FALSE)

\* 5x5 grids of the catalog's questions.
StoredMatching == {Grid5(flatQuestions, chk) : chk \in Patterns}

\* Grids whose questions differ from the catalog in some position.
StoredMismatched ==
    {Grid5(SwappedQuestions, PColumn2),
     Grid5(ChangedQuestions, PColumn2),
     Arr(Rows(CellsWith(flatQuestions, PColumn2), <<5, 5, 5, 5>>))}

\* Arrays of another shape whose first 25 cells carry the catalog's questions.
StoredMisshapen ==
    {Arr(Grid5(flatQuestions, chk).items \o <<Arr(<<ExtraCell>>)>>) :
        chk \in {PNone, PDiagButFirst}}
    \cup
    {Arr(Rows(CellsWith(flatQuestions, PColumn2) \o <<ExtraCell>>, <<5, 5, 5, 5, 6>>)),
     Arr(Rows(CellsWith(flatQuestions, PColumn2), <<6, 5, 5, 5, 4>>)),
     Arr(Rows(CellsWith(flatQuestions, PColumn2), <<25>>)),
     Arr(<<Arr(<<>>)>> \o Grid5(flatQuestions, PNone).items),
     Arr(CellsWith(flatQuestions, PColumn2)),
     Arr(Grid5(flatQuestions, PColumn0).items \o <<Arr(<<JObject>>)>>)}

\* Values that are not arrays of cells.
StoredJunk ==
    {JNull, JNumber, JString, JObject,
     Arr(<<>>), Arr(<<JNull>>), Arr(<<JNumber, JNumber>>),
     Arr(<<Arr(<<Grid5(flatQuestions, PColumn2)>>)>>),
     Arr(CellsWith(flatQuestions, PColumn2) \o <<JNull>>),
     Arr(Grid5(flatQuestions, PColumn2).items \o <<JString>>)}

StoredBoards ==
    {NoItem, EmptyText, GarbageText}
    \cup {JSONstringify(v) :
            v \in StoredMatching \cup StoredMismatched \cup StoredMisshapen \cup StoredJunk}

StoredThemes == {NoItem, Str("light"), Str("dark"), Str("blue"), Str("")}
ColorSchemes == {"dark", "light", "unsupported"}
SearchInputs == {<<>>, <<" ", "A">>}
Keys == {"Enter", "Tab"}

(***************************************************************************)
(* State machine                                                           *)
(***************************************************************************)
ModalClosed == [open |-> FALSE, question |-> Defined(""), row |-> -1, col |-> -1]

\* No load has happened, or an event has been handled since.
NotFresh ==
    [fresh |-> FALSE, board |-> NoItem, theme |-> NoItem, scheme |-> "unsupported",
     theme0 |-> "light", flips |-> 0]

\* useEffect(() => localStorage.setItem(LOCAL_STORAGE_KEY, JSON.stringify(board)), [board]):
\* the new content of the slot, given the board and the old content.
BoardEffectSkipped(b, old) == old

BoardEffect(b, old) == JSONstringify(b)

\* useEffect(() => localStorage.setItem(THEME_KEY, theme), [theme])
ThemeEffect(th, old) == Str(th)

Init ==
    /\ lsBoard \in StoredBoards
    /\ lsTheme \in StoredThemes
    /\ pc = "unloaded"
    /\ board = Arr(<<>>)
    /\ modal = ModalClosed
    /\ search = <<>>
    /\ theme = "light"
    /\ bingoCompleted = FALSE
    /\ loaded = NotFresh
    /\ snap = Arr(<<>>)
    /\ rep = 0

\* The first render of App: the useState initialisers read the two slots;
\* a render that throws unmounts the component, and no effect runs.
Load ==
    /\ board' = getInitialBoard(lsBoard)
    /\ modal' = ModalClosed
    /\ search' = <<>>
    /\ snap' = board'
    /\ rep' = 0
    /\ pc' = IF RenderThrows(board', search') THEN "crashed" ELSE "rendered"
    /\ bingoCompleted' = IF pc' = "rendered" THEN isBingo(board') ELSE bingoCompleted
    /\ UNCHANGED <<lsBoard, lsTheme>>
    /\ \E scheme \in ColorSchemes :
          /\ theme' = getInitialTheme(lsTheme, scheme)
          /\ loaded' = [fresh |-> TRUE, board |-> lsBoard, theme |-> lsTheme,
                        scheme |-> scheme, theme0 |-> theme', flips |-> 0]

Mount == pc = "unloaded" /\ Load

\* The page is reloaded; while the effects of the first render are pending
\* the slots still hold what the load read.
Reload == pc \in {"rendered", "ready", "crashed"} /\ Load

\* The two effects of the first render, run together after its commit and
\* before any event is handled.
MountEffects ==
    /\ pc = "rendered"
    /\ lsBoard' = BoardEffect(board, lsBoard)
    /\ lsTheme' = ThemeEffect(theme, lsTheme)
    /\ pc' = "ready"
    /\ UNCHANGED <<board, modal, search, theme, bingoCompleted, loaded, snap, rep>>

Clickable(row, col) == row * 5 + col <= MaxClickIdx \/ row > 4 \/ col > 4

onCellClickHandler(row, col) ==
    /\ modal' = [open |-> TRUE, question |-> QuestionOf(CellAt(board, row, col)),
                 row |-> row, col |-> col]
    /\ loaded' = NotFresh
    /\ snap' = board
    /\ rep' = 0
    /\ UNCHANGED <<lsBoard, lsTheme, pc, board, search, theme, bingoCompleted>>

CellClick ==
    /\ pc = "ready" /\ ~modal.open
    /\ \E rc \in CellsOf(board) :
          /\ Clickable(rc[1], rc[2])
          /\ Visible(CellAt(board, rc[1], rc[2]), search)
          /\ onCellClickHandler(rc[1], rc[2])

onCellKeyDownHandler(row, col, key) ==
    IF key = "Enter" \/ key = " "
    THEN onCellClickHandler(row, col)
    ELSE UNCHANGED vars

CellKeyDown ==
    /\ pc = "ready" /\ ~modal.open
    /\ \E rc \in CellsOf(board), key \in Keys :
          /\ rc[1] * 5 + rc[2] <= MaxKeyIdx
          /\ Visible(CellAt(board, rc[1], rc[2]), search)
          /\ onCellKeyDownHandler(rc[1], rc[2], key)

onModalCloseHandler ==
    /\ pc = "ready" /\ modal.open
    /\ modal' = ModalClosed
    /\ loaded' = NotFresh
    /\ snap' = board
    /\ rep' = 0
    /\ UNCHANGED <<lsBoard, lsTheme, pc, board, search, theme, bingoCompleted>>

\* The handler, the render it causes and the board effect of that render.
onModalCheckHandler ==
    /\ pc = "ready"
    /\ IF modal.row = -1 \/ modal.col = -1
       THEN UNCHANGED vars
       ELSE IF ToggleThrows(board, modal.row, modal.col)
       THEN /\ pc' = "crashed"
            /\ loaded' = NotFresh
            /\ UNCHANGED <<lsBoard, lsTheme, board, modal, search, theme,
                           bingoCompleted, snap, rep>>
       ELSE /\ rep < MaxRep
            /\ board' = Toggle(board, modal.row, modal.col)
            /\ modal' = [modal EXCEPT !.open = FALSE]
            /\ rep' = rep + 1
            /\ loaded' = NotFresh
            /\ UNCHANGED <<lsTheme, search, theme, snap>>
            /\ IF RenderThrows(board', search)
               THEN /\ pc' = "crashed"
                    /\ UNCHANGED <<lsBoard, bingoCompleted>>
               ELSE /\ pc' = "ready"
                    /\ bingoCompleted' = isBingo(board')
                    /\ lsBoard' = BoardEffect(board', lsBoard)

ToggleThemeDarkOnly(prev) == "dark"

\* (prev) => (prev === "light" ? "dark" : "light")
ToggleTheme(prev) == IF prev = "light" THEN "dark" ELSE "light"

\* The handler, and the theme effect of the render it causes.
onThemeToggleHandler ==
    /\ pc = "ready" /\ ~modal.open
    /\ theme' = ToggleTheme(theme)
    /\ lsTheme' = ThemeEffect(theme', lsTheme)
    /\ loaded' = IF (loaded.fresh \/ loaded.flips > 0) /\ loaded.flips < MaxThemeRun
                 THEN [NotFresh EXCEPT !.theme0 = loaded.theme0,
                                       !.flips = loaded.flips + 1]
                 ELSE NotFresh
    /\ UNCHANGED <<lsBoard, pc, board, modal, search, bingoCompleted, snap, rep>>

\* setSearch(() => e.target.value) and the render it causes, which throws
\* when the filter reaches a cell without a question.
setSearch(value) ==
    /\ search' = value
    /\ loaded' = NotFresh
    /\ pc' = IF RenderThrows(board, value) THEN "crashed" ELSE "ready"
    /\ UNCHANGED <<lsBoard, lsTheme, board, modal, theme, bingoCompleted, snap, rep>>

onSearchChangeHandler ==
    /\ pc = "ready" /\ ~modal.open
    /\ \E value \in SearchInputs : setSearch(value)

Next ==
    \/ Mount
    \/ MountEffects
    \/ Reload
    \/ CellClick
    \/ CellKeyDown
    \/ onModalCloseHandler
    \/ onModalCheckHandler
    \/ onThemeToggleHandler
    \/ onSearchChangeHandler

Spec == Init /\ [][Next]_vars

TypeOK ==
    /\ pc \in {"unloaded", "rendered", "ready", "crashed"}
    /\ theme \in {"light", "dark"}
    /\ bingoCompleted \in BOOLEAN
    /\ rep \in 0..MaxRep

(***************************************************************************)
(* isBingo on 5x5 boards: every board obtained from a base pattern (no     *)
(* cell, every cell, one of the 12 lines, 20 cells without a line) by      *)
(* flipping the checked flag of at most MaxFlip cells.                     *)
(***************************************************************************)
Idx(row, col) == row * 5 + col

LineCells ==
    {{<<r, c>> : c \in 0..4} : r \in 0..4}
    \cup {{<<r, c>> : r \in 0..4} : c \in 0..4}
    \cup {{<<i, i>> : i \in 0..4}, {<<i, 4 - i>> : i \in 0..4}}

RECURSIVE SubsetsUpTo(_)
SubsetsUpTo(k) ==
    IF k = 0 THEN {{}}
    ELSE LET S == SubsetsUpTo(k - 1)
         IN S \cup {s \cup {x} : s \in S, x \in 0..24}

BasePatterns ==
    {{Idx(rc[1], rc[2]) : rc \in line} : line \in LineCells}
    \cup {{}, 0..24, PTwentyNoLine}

InitBingo ==
    /\ \E base \in BasePatterns, flip \in SubsetsUpTo(MaxFlip) :
          board = Grid5(flatQuestions, (base \ flip) \cup (flip \ base))
    /\ pc = "unloaded"
    /\ lsBoard = NoItem
    /\ lsTheme = NoItem
    /\ modal = ModalClosed
    /\ search = <<>>
    /\ theme = "light"
    /\ bingoCompleted = FALSE
    /\ loaded = NotFresh
    /\ snap = board
    /\ rep = 0

\* const bingoCompleted = isBingo(board)
RenderBingo ==
    /\ pc = "unloaded"
    /\ pc' = "ready"
    /\ bingoCompleted' = isBingo(board)
    /\ UNCHANGED <<lsBoard, lsTheme, board, modal, search, theme,
                   loaded, snap, rep>>

NextBingo == RenderBingo

SpecBingo == InitBingo /\ [][NextBingo]_vars

(***************************************************************************)
(* Vocabulary of the properties                                            *)
(***************************************************************************)
\* A 5x5 grid of cells.
IsGrid5(b) ==
    /\ IsArray(b) /\ Len(b.items) = 5
    /\ \A r \in 1..5 :
          /\ IsArray(b.items[r]) /\ Len(b.items[r].items) = 5
          /\ \A c \in 1..5 : b.items[r].items[c].t = "cell"

\* An array of arrays of cells.
IsGridOfCells(v) ==
    /\ IsArray(v)
    /\ \A r \in 1..Len(v.items) :
          /\ IsArray(v.items[r])
          /\ \A c \in 1..Len(v.items[r].items) : v.items[r].items[c].t = "cell"

\* The catalog's question at 0-based (row, col).
CatalogAt(row, col) == questionsData[row * 5 + col + 1].question

\* 25 cells in catalog order, all unchecked.
IsFreshBoard(b) ==
    /\ IsGrid5(b)
    /\ \A r \in 0..4, c \in 0..4 :
          /\ CellAt(b, r, c).question = CatalogAt(r, c)
          /\ CellAt(b, r, c).checked = FALSE

\* The first render has been committed (its effects pending or run).
Rendered == pc \in {"rendered", "ready"}

\* The slot holds the JSON text of a value.
HoldsJSON(item) == item.kind = "string" /\ item.form = "json"

\* The persisted value is an array whose flattening consists of cells.
IsCellArray(v) ==
    /\ IsArray(v)
    /\ \A i \in 1..Len(Flat(v)) : Flat(v)[i].t = "cell"

\* Position i (1..25) of the flattened persisted sequence carries the
\* catalog's i-th question.
SamePosition(v, i) ==
    /\ i <= Len(Flat(v))
    /\ Flat(v)[i].t = "cell"
    /\ Flat(v)[i].question = questionsData[i].question

(***************************************************************************)
(* Properties                                                              *)
(***************************************************************************)
\* C1: for a 5x5 board, isBingo is true exactly when one of the 11 lines
\* (5 rows, 5 columns, the two diagonals) has its five cells checked.
C1_isBingoIffLine ==
    (pc = "ready" /\ IsGrid5(board)) =>
        (bingoCompleted <=>
            \E line \in LineCells :
                \A rc \in line : CellAt(board, rc[1], rc[2]).checked)

\* The anti-diagonal is the only complete line and isBingo answered true.
C1_witness ==
    /\ pc = "ready" /\ IsGrid5(board) /\ bingoCompleted
    /\ \A r \in 0..4, c \in 0..4 : CellAt(board, r, c).checked <=> (c = 4 - r)

\* 20 cells are checked, no line is complete and isBingo answered false.
C1_witnessNoLine ==
    /\ pc = "ready" /\ ~bingoCompleted
    /\ board = Grid5(flatQuestions, PTwentyNoLine)

\* C2: when the persisted board's flattened questions equal the catalog in
\* all 25 positions, the loaded board is the persisted board, flag for flag.
C2_matchingBoardAdopted ==
    (/\ loaded.fresh
     /\ HoldsJSON(loaded.board)
     /\ IsCellArray(JSONparse(loaded.board))
     /\ \A i \in 1..25 : SamePosition(JSONparse(loaded.board), i))
    => /\ board = JSONparse(loaded.board)
       /\ \A rc \in CellsOf(JSONparse(loaded.board)) :
             CellAt(board, rc[1], rc[2]).checked
                 = CellAt(JSONparse(loaded.board), rc[1], rc[2]).checked

\* A persisted 5x5 board with 20 checked cells has just been loaded.
C2_witness ==
    /\ loaded.fresh /\ pc = "ready"
    /\ loaded.board = JSONstringify(Grid5(flatQuestions, PTwentyNoLine))
    /\ board = Grid5(flatQuestions, PTwentyNoLine)

\* C3: when the persisted board's flattened questions differ from the
\* catalog in at least one of the 25 positions (a reordering included), the
\* loaded board is the fresh one: catalog order, every cell unchecked.
C3_mismatchResets ==
    (/\ loaded.fresh
     /\ HoldsJSON(loaded.board)
     /\ IsCellArray(JSONparse(loaded.board))
     /\ \E i \in 1..25 : ~SamePosition(JSONparse(loaded.board), i))
    => IsFreshBoard(board)

\* A persisted board with two questions exchanged and a column checked has
\* just been loaded, and nothing is checked.
C3_witness ==
    /\ loaded.fresh /\ pc = "ready"
    /\ loaded.board = JSONstringify(Grid5(SwappedQuestions, PColumn2))
    /\ IsFreshBoard(board)

\* C4: when the slot is absent or holds a value that does not parse or
\* parses to something that is not a grid of cells, the load does not fail
\* and yields the fresh board.
C4_malformedFallsBack ==
    (/\ loaded.fresh
     /\ \/ loaded.board = NoItem
        \/ ~HoldsJSON(loaded.board)
        \/ ~IsGridOfCells(JSONparse(loaded.board)))
    => (Rendered /\ IsFreshBoard(board))

\* C5: the in-memory board is always a 5x5 grid carrying the catalog's 25
\* questions in order, with no extra and no missing cell.
C5_boardMatchesCatalog ==
    (pc = "ready") =>
        /\ IsGrid5(board)
        /\ \A r \in 0..4, c \in 0..4 : CellAt(board, r, c).question = CatalogAt(r, c)

\* C6: a toggle at (row, col) within 0..4 (a step of onModalCheckHandler
\* that counts a toggle) negates the checked flag of that cell and changes
\* no other flag, no question and no cell count.
C6_toggleOnlyThatCell ==
    [][(/\ rep' = rep + 1
        /\ modal.row \in 0..4 /\ modal.col \in 0..4)
       => /\ CellsOf(board') = CellsOf(board)
          /\ Len(board'.items) = Len(board.items)
          /\ \A rc \in CellsOf(board) :
                /\ QuestionOf(CellAt(board', rc[1], rc[2]))
                       = QuestionOf(CellAt(board, rc[1], rc[2]))
                /\ CellAt(board', rc[1], rc[2]).checked
                       = IF rc = <<modal.row, modal.col>>
                         THEN ~CellAt(board, rc[1], rc[2]).checked
                         ELSE CellAt(board, rc[1], rc[2]).checked]_vars

\* One toggle of cell (0, 3) has been made since the detail view was opened
\* on it, and the board differs from the board at the opening.
C6_witness ==
    /\ pc = "ready" /\ rep = 1
    /\ modal.row = 0 /\ modal.col = 3
    /\ board # snap

\* C7: two toggles of the same cell in succession restore the board: after
\* the second one the board is the board before the first, and toggling any
\* cell of the current board twice gives the current board.
C7_toggleTwiceRestores ==
    /\ rep = 2 => board = snap
    /\ pc = "ready" =>
          \A rc \in CellsOf(board) :
              (rc[1] \in 0..4 /\ rc[2] \in 0..4) =>
                  Toggle(Toggle(board, rc[1], rc[2]), rc[1], rc[2]) = board

\* Cell (0, 0) has been toggled twice in succession on a board that has
\* other cells checked.
C7_witness ==
    /\ pc = "ready" /\ rep = 2
    /\ modal.row = 0 /\ modal.col = 0
    /\ \E rc \in CellsOf(board) : CellAt(board, rc[1], rc[2]).checked

\* C8: whenever the application is ready for an event, the slot
\* "bingo-board-state" holds the whole in-memory board: the write that
\* follows a toggle has completed.  While the effects of the first render
\* are pending no toggle has been made, and the board is the one a reload
\* computes from the slot.
C8_persistedEqualsMemory ==
    /\ pc = "ready" => (HoldsJSON(lsBoard) /\ JSONparse(lsBoard) = board)
    /\ pc = "rendered" => (rep = 0 /\ board = getInitialBoard(lsBoard))

\* A toggle has changed the board since the detail view was opened, and the
\* slot holds the changed board.
C8_witness ==
    /\ pc = "ready" /\ rep = 1 /\ board # snap
    /\ HoldsJSON(lsBoard) /\ JSONparse(lsBoard) = board

\* C9: with no persisted state the load gives 25 unchecked cells in catalog
\* order and no bingo; when every cell of row 0 is checked isBingo is true;
\* and a reload (a step that leaves the application just rendered) gives
\* back the board the toggles have produced, which the effects of that
\* render leave as it is.
C9_freshStart ==
    (loaded.fresh /\ loaded.board = NoItem) =>
        (Rendered /\ IsFreshBoard(board) /\ ~bingoCompleted)

C9_rowZero ==
    (/\ pc = "ready"
     /\ \A rc \in CellsOf(board) : rc[1] = 0 => CellAt(board, rc[1], rc[2]).checked)
    => bingoCompleted

C9_endToEnd ==
    /\ [](C9_freshStart /\ C9_rowZero)
    /\ [][/\ (pc = "ready" /\ loaded'.fresh /\ pc' # "ready")
                 => (pc' = "rendered" /\ board' = board)
          /\ (pc = "rendered") => (Rendered' /\ board' = board)]_vars

\* The board with exactly row 0 checked has just been reloaded and shows a
\* bingo.
C9_witness ==
    /\ pc = "ready" /\ loaded.fresh /\ bingoCompleted
    /\ board = Grid5(flatQuestions, 0..4)

\* C10: the initial theme is the persisted value when that is "light" or
\* "dark", whatever the host prefers; otherwise "dark" when the host reports
\* a dark preference and "light" when it reports a light one or has no
\* preference query.
C10_initialTheme ==
    loaded.fresh =>
        /\ (loaded.theme \in {Str("light"), Str("dark")}) => theme = loaded.theme.s
        /\ (loaded.theme \notin {Str("light"), Str("dark")} /\ loaded.scheme = "dark")
               => theme = "dark"
        /\ (loaded.theme \notin {Str("light"), Str("dark")}
            /\ loaded.scheme \in {"light", "unsupported"})
               => theme = "light"

\* The slot held "light", the host prefers dark, and the theme is light.
C10_witness ==
    /\ loaded.fresh /\ pc = "ready"
    /\ loaded.theme = Str("light") /\ loaded.scheme = "dark"
    /\ theme = "light"

\* The slot held another string, the host prefers dark, and the theme is dark.
C10_witnessHost ==
    /\ loaded.fresh /\ pc = "ready"
    /\ loaded.theme = Str("blue") /\ loaded.scheme = "dark"
    /\ theme = "dark"

\* C11: the theme toggle is always available on the page and switches
\* between "light" and "dark"; after an even number of consecutive toggles
\* the theme is the one the toggles started from, after an odd number the
\* other one; and after each toggle the slot "bingo-theme" holds the
\* in-memory theme.
C11_toggleStep ==
    (pc = "ready" /\ pc' = "ready" /\ ~loaded'.fresh /\ theme' # theme) =>
        /\ {theme, theme'} = {"light", "dark"}
        /\ lsTheme' = Str(theme')
        /\ ToggleTheme(theme') = theme

C11_run ==
    /\ (pc = "ready" /\ ~modal.open) => ENABLED onThemeToggleHandler
    /\ pc = "ready" => lsTheme = Str(theme)
    /\ (loaded.fresh \/ loaded.flips > 0) =>
          /\ theme \in {"light", "dark"}
          /\ (loaded.flips % 2 = 0) <=> (theme = loaded.theme0)

C11_themeToggle == [](C11_run) /\ [][C11_toggleStep]_vars

\* The load set the light theme, two toggles have followed it with no other
\* event between, the theme is light again and the slot holds "light".
C11_witness ==
    /\ pc = "ready" /\ loaded.flips = 2
    /\ loaded.theme0 = "light" /\ theme = "light"
    /\ lsTheme = Str("light")

(***************************************************************************)
(* The search filter on typed queries: every query of at most MaxQueryLen  *)
(* characters, typed one edit at a time into the application after it has  *)
(* loaded a persisted 5x5 board.                                           *)
(***************************************************************************)
QueryChars == {"a", "b", "A", "B", " ", "\t"}

\* What the field can hold after one more edit: a character typed at the
\* end, the last character deleted, or the field cleared.
Edits(q) ==
    {Append(q, c) : c \in {x \in QueryChars : Len(q) < MaxQueryLen}}
    \cup {SubSeq(q, 1, Len(q) - 1) : x \in {y \in {1} : q # <<>>}}
    \cup {<<>>}

InitSearch ==
    /\ \E chk \in Patterns :
          /\ board = Grid5(flatQuestions, chk)
          /\ lsBoard = JSONstringify(board)
          /\ bingoCompleted = isBingo(board)
          /\ snap = board
    /\ \E th \in {"light", "dark"} : theme = th /\ lsTheme = Str(th)
    /\ pc = "ready"
    /\ modal = ModalClosed
    /\ search = <<>>
    /\ loaded = NotFresh
    /\ rep = 0

onSearchChangeHandlerTyped ==
    /\ pc = "ready" /\ ~modal.open
    /\ \E value \in Edits(search) : setSearch(value)

NextSearch == onSearchChangeHandlerTyped

SpecSearch == InitSearch /\ [][NextSearch]_vars

\* The query without its leading and trailing blanks.
Blank(c) == c = " " \/ c = "\t"
Kept(q) == {k \in 1..Len(q) : ~Blank(q[k])}
Trimmed(q) ==
    IF Kept(q) = {} THEN <<>>
    ELSE SubSeq(q, CHOOSE k \in Kept(q) : \A m \in Kept(q) : k <= m,
                   CHOOSE k \in Kept(q) : \A m \in Kept(q) : k >= m)

\* Case folding of a character.
Folded(c) == CASE c = "A" -> "a" [] c = "B" -> "b" [] OTHER -> c

\* sub occurs in text at some offset, case folded.
OccursFolded(sub, text) ==
    \E pre \in 0..Len(text) :
        /\ pre + Len(sub) <= Len(text)
        /\ \A k \in 1..Len(sub) : Folded(sub[k]) = Folded(text[pre + k])

\* C12: a cell is visible exactly when the trimmed query is empty or occurs,
\* case folded, in the cell's question; an empty or all-blank query shows
\* all 25 cells; and a change of the query changes no cell of the board.
C12_visibility ==
    pc = "ready" =>
        /\ \A rc \in CellsOf(board) :
              Visible(CellAt(board, rc[1], rc[2]), search)
                  <=> \/ Trimmed(search) = <<>>
                      \/ OccursFolded(Trimmed(search),
                                      CharsOf(CellAt(board, rc[1], rc[2]).question))
        /\ (\A k \in 1..Len(search) : Blank(search[k])) =>
              Cardinality({rc \in CellsOf(board) :
                              Visible(CellAt(board, rc[1], rc[2]), search)}) = 25

C12_searchFilter ==
    /\ [](C12_visibility)
    /\ [][search' # search => board' = board]_vars

\* The query " Ba" with a blank after it is typed on a board with checked
\* cells: the cell "bA" is visible and the cell "ab" is not.
C12_witness ==
    /\ pc = "ready"
    /\ search = <<" ", "B", "a">>
    /\ Visible(CellAt(board, 1, 2), search)
    /\ ~Visible(CellAt(board, 0, 1), search)
    /\ \E rc \in CellsOf(board) : CellAt(board, rc[1], rc[2]).checked

\* A query of blanks only is typed and every cell is visible.
C12_witnessBlank ==
    /\ pc = "ready"
    /\ search = <<" ", "\t">>
    /\ \A rc \in CellsOf(board) : Visible(CellAt(board, rc[1], rc[2]), search)

\* C13: the check action toggles exactly the cell at the (row, col) the
\* detail view was last opened with, those coordinates are always within
\* 0..4, and with no cell selected (row = -1 or col = -1) no step of the
\* loaded application, the check action included, changes a cell.
C13_checkStep ==
    /\ (rep' = rep + 1) =>
          /\ modal.row \in 0..4 /\ modal.col \in 0..4
          /\ CellsOf(board') = CellsOf(board)
          /\ \A rc \in CellsOf(board) :
                CellAt(board', rc[1], rc[2]) = CellAt(board, rc[1], rc[2])
                    <=> rc # <<modal.row, modal.col>>
    /\ (pc = "ready" /\ ~loaded'.fresh /\ (modal.row = -1 \/ modal.col = -1))
          => board' = board
    /\ (modal'.open /\ ~modal.open) =>
          /\ <<modal'.row, modal'.col>> \in CellsOf(board)
          /\ modal'.question = QuestionOf(CellAt(board, modal'.row, modal'.col))

C13_checkTogglesSelected == [][C13_checkStep]_vars

====
